---- MODULE Spec2Model ----
(***************************************************************************)
(* Model of the regex-driven distillation stages of                        *)
(* text_distilling_processes.py: RegexRead and its subclasses              *)
(* ReadBetweenTokens, ReadBetweenWhitespaces, MultipleRegexRead and        *)
(* BlockRegexRead, with their config_process and distill methods.          *)
(*                                                                         *)
(* Strings are sequences of one-character strings.  A regular expression   *)
(* is a record [atoms, group]: atoms is a sequence of [cs, q] (a character *)
(* class and a quantifier "one", "plus" (greedy +) or "lazy" (non-greedy   *)
(* star)), group                                                           *)
(* is <<>> or <<first atom, last atom>> of the single capture group.       *)
(***************************************************************************)
EXTENDS Integers, Sequences, FiniteSets, TLC

\* ------------------------------------------------------------------ bounds
\* Number of lines the stream delivers before it is exhausted.
MaxLines == 4
\* Number of config_process calls made on the stage.
MaxConfigs == 2

\* lines a stream delivers to a stage that is also reconfigured
MaxCfgLines == 3

\* ------------------------------------------------------------- characters
Whitespace == {" ", "\n"}
Digits     == {"1", "2", "3"}
Upper      == {"E", "N", "D"}
Lower      == {"x", "y", "z", "a", "b", "n", "m", "e", "l", "p", "h", "t", "g"}
WordChars  == Digits \cup Upper \cup Lower
Alphabet   == WordChars \cup Whitespace
                 \cup {"=", "<", ">", "#", "[", "]", ":"}
\* '.' matches everything but the line terminator
Dot        == Alphabet \ {"\n"}

\* Python's None: a value that differs from every string, list and dictionary
\* of the model, longer than each of them so that TLC tells it apart from
\* them by its length
None == [i \in 1..16 |-> "None"]

\* ---------------------------------------------------------------- strings
\* Python's  tok in line
Contains(tok, line) ==
    \E i \in 1..(Len(line) - Len(tok) + 1) :
        SubSeq(line, i, i + Len(tok) - 1) = tok

RECURSIVE RemoveWs(_)
\* re.sub(r"\s+", "", line)
RemoveWs(line) ==
    IF line = <<>> THEN <<>>
    ELSE IF Head(line) \in Whitespace THEN RemoveWs(Tail(line))
    ELSE <<Head(line)>> \o RemoveWs(Tail(line))

RECURSIVE CollapseWs(_)
\* re.sub('\s+', ' ', line)
CollapseWs(line) ==
    IF line = <<>> THEN <<>>
    ELSE IF Head(line) \in Whitespace
         THEN IF Len(line) > 1 /\ line[2] \in Whitespace
              THEN CollapseWs(Tail(line))
              ELSE <<" ">> \o CollapseWs(Tail(line))
         ELSE <<Head(line)>> \o CollapseWs(Tail(line))

RECURSIVE rstrip(_)
\* str.rstrip()
rstrip(line) ==
    IF line = <<>> THEN <<>>
    ELSE IF line[Len(line)] \in Whitespace
         THEN rstrip(SubSeq(line, 1, Len(line) - 1))
         ELSE line

\* ---------------------------------------------------- regular expressions
RECURSIVE Run(_, _, _)
\* number of consecutive characters of class cs starting at position i
Run(cs, line, i) ==
    IF i <= Len(line) /\ line[i] \in cs THEN 1 + Run(cs, line, i + 1) ELSE 0

SetMax(S) == CHOOSE m \in S : \A n \in S : n <= m
SetMin(S) == CHOOSE m \in S : \A n \in S : m <= n

RECURSIVE MatchFrom(_, _, _, _)
\* Backtracking match of atoms k.. at position i.  The result is <<>> when
\* there is no match, else the start position of every atom k.. followed by
\* the position after the match.
MatchFrom(atoms, k, line, i) ==
    IF k > Len(atoms) THEN <<i>>
    ELSE
      LET a   == atoms[k]
          run == Run(a.cs, line, i)
          lo  == IF a.q = "lazy" THEN 0 ELSE 1
          hi  == IF a.q = "one" THEN (IF run >= 1 THEN 1 ELSE 0) ELSE run
          ok  == {j \in lo..hi : MatchFrom(atoms, k + 1, line, i + j) # <<>>}
      IN  IF ok = {} THEN <<>>
          ELSE LET j == IF a.q = "lazy" THEN SetMin(ok) ELSE SetMax(ok)
               IN  <<i>> \o MatchFrom(atoms, k + 1, line, i + j)

\* what re.findall reports for one match: the group if there is one, else
\* the whole match
Capture(rx, line, P) ==
    IF rx.group = <<>>
    THEN SubSeq(line, P[1], P[Len(rx.atoms) + 1] - 1)
    ELSE SubSeq(line, P[rx.group[1]], P[rx.group[2] + 1] - 1)

RECURSIVE FindAllFrom(_, _, _)
FindAllFrom(rx, line, i) ==
    IF i > Len(line) THEN <<>>
    ELSE LET P == MatchFrom(rx.atoms, 1, line, i)
         IN  IF P = <<>> THEN FindAllFrom(rx, line, i + 1)
             ELSE <<Capture(rx, line, P)>>
                      \o FindAllFrom(rx, line, P[Len(rx.atoms) + 1])

\* re.findall(regex, text_line): the non-overlapping matches, left to right
FindAll(rx, line) == FindAllFrom(rx, line, 1)

RECURSIVE SubFrom(_, _, _, _)
SubFrom(rx, repl, line, i) ==
    IF i > Len(line) THEN <<>>
    ELSE LET P == MatchFrom(rx.atoms, 1, line, i)
         IN  IF P = <<>> THEN <<line[i]>> \o SubFrom(rx, repl, line, i + 1)
             ELSE repl \o SubFrom(rx, repl, line, P[Len(rx.atoms) + 1])

\* re.sub(regex, repl, line): every match replaced by repl
Sub(rx, repl, line) == SubFrom(rx, repl, line, 1)

RECURSIVE SplitFrom(_, _, _)
\* cur is the word being collected
SplitFrom(line, i, cur) ==
    IF i > Len(line) THEN (IF cur = <<>> THEN <<>> ELSE <<cur>>)
    ELSE IF line[i] \in Whitespace
         THEN (IF cur = <<>> THEN <<>> ELSE <<cur>>)
                  \o SplitFrom(line, i + 1, <<>>)
         ELSE SplitFrom(line, i + 1, Append(cur, line[i]))

\* str.split(): the words between runs of whitespace
Split(line) == SplitFrom(line, 1, <<>>)

Atom(cs, q) == [cs |-> cs, q |-> q]

\* \w+=\w+
KV   == [atoms |-> <<Atom(WordChars, "plus"), Atom({"="}, "one"),
                     Atom(WordChars, "plus")>>, group |-> <<>>]
\* \d+
NUM  == [atoms |-> <<Atom(Digits, "plus")>>, group |-> <<>>]
\* [A-Z]+
WORD == [atoms |-> <<Atom(Upper, "plus")>>, group |-> <<>>]
\* the regex attribute when it is None
NoRegex == [atoms |-> <<>>, group |-> <<>>]

\* (.*?)\s   -- ReadBetweenWhitespaces.__init__
whitespace_token == [atoms |-> <<Atom(Dot, "lazy"), Atom(Whitespace, "one")>>,
                     group |-> <<1, 1>>]

\* the atoms that match the characters of a delimiter token literally
Literal(tk) == [i \in 1..Len(tk) |-> Atom({tk[i]}, "one")]

\* "\\" + tk1 + "(.*?)\\" + tk2  -- ReadBetweenTokens._set_regex.  The
\* tokens of the model are punctuation, which the backslash leaves literal.
TokenRegex_greedy(tk1, tk2) ==
    [atoms |-> Literal(tk1) \o <<Atom(Dot, "plus")>> \o Literal(tk2),
     group |-> <<Len(tk1) + 1, Len(tk1) + 1>>]

TokenRegex(tk1, tk2) ==
    [atoms |-> Literal(tk1) \o <<Atom(Dot, "lazy")>> \o Literal(tk2),
     group |-> <<Len(tk1) + 1, Len(tk1) + 1>>]

\* ----------------------------------------------------------------- inputs
LBRACKET == <<"[">>
RBRACKET == <<"]">>
END    == <<"E", "N", "D">>
ENDTAG == <<"<", "E", "N", "D", ">">>
HASH   == <<"#">>

\* the lines a stream can deliver (readline keeps the terminator)
Lines == { <<"<", "E", "N", "D", ">", "\n">>,
           <<"x", "=", "1", "\n">>,
           <<"y", "=", "2", "\n">>,
           <<"<", "E", "N", " ", "D", ">", "\n">>,
           <<"z", "=", "3", " ", "E", "N", "D", "\n">> }

\* the lines a stream read by a ReadBetweenTokens stage can deliver
TokenLines == { <<"[", "x", "]", " ", "[", "y", "]", "\n">>,
                <<"n", "a", "m", "e", "1", ":", "[", "x", "]", " ",
                  "n", "a", "m", "e", "2", ":", "[", "y", "]", "\n">>,
                <<"a", "[", "x", "]", "[", "y", "]", "\n">>,
                <<"a", "[", "x", "]", "b", "\n">>,
                <<"a", "[", "x", "]", "a", "[", "y", "]", "\n">>,
                <<"#", "x", "#", "\n">> }

\* the lines a stream read by a ReadBetweenWhitespaces stage can deliver
WsLines == { <<"a", "l", "p", "h", "a", " ", " ", " ", "b", "e", "t", "a",
               " ", " ", "g", "a", "m", "m", "a", "\n">>,
             <<" ", "a", " ", "b", "\n">>,
             <<" ", " ", "\n">>,
             <<"\n">>,
             <<"x", "=", "1", " ", "\n">> }

\* readline() at end of stream
EOF == <<>>

\* regex_dict values: a dict is the sequence of its items in insertion order
KvDict   == << [id |-> "kv", pats |-> <<KV>>] >>
TwoDict  == << [id |-> "kv", pats |-> <<KV, NUM>>],
               [id |-> "w",  pats |-> <<WORD>>] >>

EmptyDict == [k \in {} |-> <<>>]

\* the classes whose distill is the scan loop of RegexRead
Kinds == {"RegexRead", "ReadBetweenWhitespaces", "MultipleRegexRead",
          "BlockRegexRead"}

VARIABLES
    kind,               \* the class of the stage instance
    regex,              \* self.regex
    stop_on_match,      \* self.stop_on_match
    stop_token,         \* self.stop_token
    exclusive_match,    \* self.exclusive_match (MultipleRegexRead)
    clean_whitespaces,  \* self.clean_whitespaces
    regex_dict,         \* self.regex_dict
    block_end_token,    \* self.block_end_token (BlockRegexRead)
    token1,             \* self.token1 (ReadBetweenTokens)
    token2,             \* self.token2 (ReadBetweenTokens)
    store_names,        \* self.store_names (ReadBetweenTokens)
    result_data,        \* self.result_data
    block_count,        \* self._block_count
    pc,                 \* "idle", "loop" (inside distill), "done", "raised",
                        \* or the exception that left ReadBetweenTokens.distill
    execute_once,       \* distill's local
    continue_exec,      \* distill's local
    process_input,      \* distill's local / returned cursor: "file" or "None"
    sample,             \* the sample of the last return
    delivered,          \* lines the stream has delivered so far
    lines_read,         \* history: the raw lines read in the current call
    match_log,          \* history: per line of lines_read, did it yield captures
    reads,              \* history: readline() calls made in the current call
    cfg_calls,          \* history: config_process calls made so far
    cfg_status,         \* history: "none", or how the last config_process
                        \* call ended: "ok" or "raised"
    cfg_opt,            \* history: the opt_dict of the last config_process
    sample_live,        \* the object last returned as sample is still the
                        \* object self.result_data is bound to
    shared_dict,        \* self.regex_dict is the default-argument object,
                        \* which every instance built without a binding map
                        \* holds as well
    peer_regex_dict     \* the bindings such another instance observes

\* what distill leaves alone: the configured fields but self.regex, and the
\* record of the config_process calls
config == <<kind, stop_on_match, stop_token, exclusive_match,
            clean_whitespaces, regex_dict, block_end_token,
            token1, token2, store_names, cfg_calls, cfg_status, cfg_opt,
            shared_dict, peer_regex_dict>>
vars == <<kind, regex, stop_on_match, stop_token, exclusive_match,
          clean_whitespaces, regex_dict, block_end_token, token1, token2,
          store_names, result_data, block_count, pc, execute_once,
          continue_exec, process_input, sample, delivered, lines_read,
          match_log, reads, cfg_calls, cfg_status, cfg_opt, sample_live,
          shared_dict, peer_regex_dict>>

IsDictKind == kind \in {"MultipleRegexRead", "BlockRegexRead"}

\* ------------------------------------------------------------ constructors
\* the classes other than ReadBetweenTokens have no token attributes
NoTokens == token1 = None /\ token2 = None /\ store_names = FALSE

\* RegexRead.__init__
RegexRead_init ==
    /\ kind = "RegexRead"
    /\ regex \in {KV, WORD}
    /\ stop_on_match \in BOOLEAN
    /\ stop_token \in {None, END, HASH}
    /\ exclusive_match = FALSE
    /\ clean_whitespaces = TRUE
    /\ regex_dict = <<>>
    /\ block_end_token = None
    /\ block_count = 0
    /\ NoTokens

\* ReadBetweenWhitespaces.__init__
ReadBetweenWhitespaces_init ==
    /\ kind = "ReadBetweenWhitespaces"
    /\ regex = whitespace_token
    /\ stop_on_match = FALSE
    /\ stop_token = None
    /\ exclusive_match = FALSE
    /\ clean_whitespaces \in BOOLEAN
    /\ regex_dict = <<>>
    /\ block_end_token = None
    /\ block_count = 0
    /\ NoTokens

\* MultipleRegexRead.__init__
MultipleRegexRead_init ==
    /\ kind = "MultipleRegexRead"
    /\ regex = NoRegex
    /\ stop_on_match \in BOOLEAN
    /\ stop_token \in {None, END}
    /\ exclusive_match \in BOOLEAN
    /\ clean_whitespaces \in BOOLEAN
    /\ regex_dict \in {KvDict, TwoDict}
    /\ block_end_token = None
    /\ block_count = 0
    /\ NoTokens

\* BlockRegexRead.__init__
BlockRegexRead_init ==
    /\ kind = "BlockRegexRead"
    /\ regex = NoRegex
    /\ stop_on_match = FALSE
    /\ stop_token \in {None, END, HASH}
    /\ exclusive_match = FALSE
    /\ clean_whitespaces \in BOOLEAN
    /\ regex_dict \in {KvDict, TwoDict}
    /\ block_end_token \in {None, ENDTAG}
    /\ block_count = 0
    /\ NoTokens

\* MultipleRegexRead(exclusive_match): regex_dict is the default argument
MultipleRegexRead_init_default ==
    /\ kind = "MultipleRegexRead"
    /\ regex = NoRegex
    /\ stop_on_match = TRUE
    /\ stop_token = None
    /\ exclusive_match \in BOOLEAN
    /\ clean_whitespaces = TRUE
    /\ regex_dict = <<>>
    /\ block_end_token = None
    /\ block_count = 0
    /\ NoTokens

\* BlockRegexRead("<END>"): regex_dict is the default argument
BlockRegexRead_init_default ==
    /\ kind = "BlockRegexRead"
    /\ regex = NoRegex
    /\ stop_on_match = FALSE
    /\ stop_token = None
    /\ exclusive_match = FALSE
    /\ clean_whitespaces = TRUE
    /\ regex_dict = <<>>
    /\ block_end_token = ENDTAG
    /\ block_count = 0
    /\ NoTokens

\* ReadBetweenTokens._set_regex(tk_a, tk_b) on a stage whose tokens and
\* pattern are t1, t2, rx: the new token1, token2 and regex
set_regex(tk_a, tk_b, t1, t2, rx) ==
    LET tk1 == IF tk_a # None THEN tk_a ELSE None
        tk2 == IF tk_b # None THEN tk_b ELSE tk1
    IN  [token1 |-> IF tk_a # None THEN tk_a ELSE t1,
         token2 |-> tk2,
         regex  |-> IF tk1 # None /\ tk2 # None
                    THEN TokenRegex(tk1, tk2) ELSE rx]

\* the (token1, token2) arguments a ReadBetweenTokens is constructed with
TokenArgs == { <<LBRACKET, RBRACKET>>, <<HASH, None>>, <<None, RBRACKET>>,
               <<None, None>> }

\* ReadBetweenTokens.__init__
ReadBetweenTokens_init ==
    /\ kind = "ReadBetweenTokens"
    /\ \E args \in TokenArgs :
          LET r == set_regex(args[1], args[2], args[1], args[2], NoRegex)
          IN  /\ token1 = r.token1
              /\ token2 = r.token2
              /\ regex = r.regex
    /\ store_names \in BOOLEAN
    /\ stop_on_match = FALSE
    /\ stop_token = None
    /\ exclusive_match = FALSE
    /\ clean_whitespaces = TRUE
    /\ regex_dict = <<>>
    /\ block_end_token = None
    /\ block_count = 0

\* ------------------------------------------------------------ configuration
\* A raw option value, as the pair of its Python type and its value: a
\* string, a bool, or the flattened list of a regex_list (identifier,
\* pattern, identifier, pattern, ...).
RawStr(v)  == <<"str", v>>
RawBool(b) == <<"bool", b>>
RawList(l) == <<"list", l>>

Opt(name, type, required) ==
    [name |-> name, type |-> type, required |-> required]

\* the options each class registers with its OptManager
RegisteredOptions ==
    CASE kind = "RegexRead" ->
             { Opt("regex", "STRING", FALSE),
               Opt("stop_on_match", "BOOL", FALSE),
               Opt("stop_token", "STRING", FALSE) }
      [] kind = "ReadBetweenTokens" ->
             { Opt("token1", "STRING", FALSE),
               Opt("token2", "STRING", FALSE),
               Opt("store_names", "BOOL", FALSE) }
      [] kind = "ReadBetweenWhitespaces" ->
             { Opt("clean_whitespaces", "BOOL", TRUE) }
      [] kind = "MultipleRegexRead" ->
             { Opt("clean_whitespaces", "BOOL", FALSE),
               Opt("exclusive_match", "BOOL", FALSE),
               Opt("regex_list", "LIST_OF_TUPLES", FALSE),
               Opt("stop_on_match", "BOOL", FALSE),
               Opt("stop_token", "STRING", FALSE) }
      [] kind = "BlockRegexRead" ->
             { Opt("block_end_token", "STRING", FALSE),
               Opt("clean_whitespaces", "BOOL", FALSE),
               Opt("regex_list", "LIST_OF_TUPLES", FALSE),
               Opt("stop_token", "STRING", FALSE) }

\* a raw value can be coerced to the declared type
Coercible(type, raw) ==
    CASE type = "STRING" -> raw[1] = "str"
      [] type = "BOOL"   -> raw[1] = "bool"
      [] type = "LIST_OF_TUPLES" -> raw[1] = "list" /\ Len(raw[2]) % 2 = 0

\* the coerced value; a list is grouped pairwise
Coerce(type, raw) ==
    IF type = "LIST_OF_TUPLES"
    THEN [i \in 1..(Len(raw[2]) \div 2) |->
             <<raw[2][2 * i - 1], raw[2][2 * i]>>]
    ELSE raw[2]

\* OptManager.process_dict: the whole raw dict is validated, and either an
\* error is raised or every supplied option is returned coerced
process_dict(opt_dict) ==
    LET reg  == RegisteredOptions
        type(n) == (CHOOSE o \in reg : o.name = n).type
        ok == /\ \A n \in DOMAIN opt_dict : \E o \in reg : o.name = n
              /\ \A o \in reg : o.required => o.name \in DOMAIN opt_dict
              /\ \A n \in DOMAIN opt_dict : Coercible(type(n), opt_dict[n])
    IN  [ok  |-> ok,
         val |-> IF ok
                 THEN [n \in DOMAIN opt_dict |-> Coerce(type(n), opt_dict[n])]
                 ELSE EmptyDict]

\* the configured attributes of the stage, and how a config_process call
\* on it ended
Self ==
    [regex |-> regex, stop_on_match |-> stop_on_match,
     stop_token |-> stop_token, exclusive_match |-> exclusive_match,
     clean_whitespaces |-> clean_whitespaces, regex_dict |-> regex_dict,
     block_end_token |-> block_end_token, token1 |-> token1,
     token2 |-> token2, store_names |-> store_names, status |-> "ok",
     rebound |-> FALSE]

\* an exception leaves the method
Raise(self, error) == [self EXCEPT !.status = error]

\* if name in processed_opt: self.<name> = processed_opt[name]
SetIfPresent(self, processed_opt, name) ==
    IF name \in DOMAIN processed_opt
    THEN [self EXCEPT ![name] = processed_opt[name]]
    ELSE self

\* RegexRead.config_process
RegexRead_config_process(self, opt_dict) ==
    LET p == process_dict(opt_dict)
    IN  IF ~p.ok THEN Raise(self, "ConfigError")
        ELSE SetIfPresent(
                 SetIfPresent(SetIfPresent(self, p.val, "regex"),
                              p.val, "stop_on_match"),
                 p.val, "stop_token")

\* self._set_regex(tk_a, tk_b) inside config_process
ReadBetweenTokens_set_regex(self, tk_a, tk_b) ==
    LET r == set_regex(tk_a, tk_b, self.token1, self.token2, self.regex)
    IN  [self EXCEPT !.token1 = r.token1, !.token2 = r.token2,
                     !.regex = r.regex]

\* ReadBetweenTokens.config_process.  With only token2 supplied
\* processed_opt[self._TOKEN1] raises KeyError.
ReadBetweenTokens_config_process(self, opt_dict) ==
    LET p == process_dict(opt_dict)
        token1_present == "token1" \in DOMAIN p.val
        token2_present == "token2" \in DOMAIN p.val
    IN  IF ~p.ok THEN Raise(self, "ConfigError")
        ELSE IF ~token1_present /\ token2_present
        THEN Raise(self, "KeyError")
        ELSE LET s1 == IF token1_present /\ token2_present
                       THEN ReadBetweenTokens_set_regex(
                                self, p.val["token1"], p.val["token2"])
                       ELSE IF token1_present
                       THEN ReadBetweenTokens_set_regex(
                                self, p.val["token1"], p.val["token1"])
                       ELSE self
             IN  SetIfPresent(s1, p.val, "store_names")

ReadBetweenWhitespaces_config_unchecked(self, opt_dict) ==
    LET p == process_dict(opt_dict)
        s1 == IF "clean_whitespaces" \in DOMAIN opt_dict
                 /\ opt_dict["clean_whitespaces"][1] = "bool"
              THEN [self EXCEPT !.clean_whitespaces =
                                    opt_dict["clean_whitespaces"][2]]
              ELSE self
    IN  IF p.ok THEN s1 ELSE Raise(s1, "ConfigError")

\* ReadBetweenWhitespaces.config_process
ReadBetweenWhitespaces_config_process(self, opt_dict) ==
    LET p == process_dict(opt_dict)
    IN  IF ~p.ok THEN Raise(self, "ConfigError")
        ELSE [self EXCEPT !.clean_whitespaces = p.val["clean_whitespaces"]]

AppendRegex_overwrite(d, regex_id, rx) ==
    IF \E k \in 1..Len(d) : d[k].id = regex_id
    THEN [k \in 1..Len(d) |->
             IF d[k].id = regex_id THEN [d[k] EXCEPT !.pats = <<rx>>]
             ELSE d[k]]
    ELSE Append(d, [id |-> regex_id, pats |-> <<rx>>])

\* if regex_id in self.regex_dict: self.regex_dict[regex_id].append(regex)
\* else: self.regex_dict[regex_id] = [regex]
AppendRegex(d, regex_id, rx) ==
    IF \E k \in 1..Len(d) : d[k].id = regex_id
    THEN [k \in 1..Len(d) |->
             IF d[k].id = regex_id THEN [d[k] EXCEPT !.pats = Append(@, rx)]
             ELSE d[k]]
    ELSE Append(d, [id |-> regex_id, pats |-> <<rx>>])

RECURSIVE FoldRegexList(_, _)
\* the for loop over list_of_tuples, started on the dict d
FoldRegexList(d, list_of_tuples) ==
    IF list_of_tuples = <<>> THEN d
    ELSE FoldRegexList(AppendRegex(d, Head(list_of_tuples)[1],
                                   Head(list_of_tuples)[2]),
                       Tail(list_of_tuples))

SetRegexDict_in_place(self, processed_opt) ==
    IF "regex_list" \in DOMAIN processed_opt
    THEN [self EXCEPT !.regex_dict =
                          FoldRegexList(<<>>, processed_opt["regex_list"])]
    ELSE self

\* if self._REGEX_LIST in processed_opt: self.regex_dict = dict(); for ...
\* The attribute is bound to a new dict (rebound) before the pairs are
\* folded into it.
SetRegexDict(self, processed_opt) ==
    IF "regex_list" \in DOMAIN processed_opt
    THEN [self EXCEPT !.rebound = TRUE,
                      !.regex_dict =
                          FoldRegexList(<<>>, processed_opt["regex_list"])]
    ELSE self

\* MultipleRegexRead.config_process; exclusive_match is looked up in the
\* raw opt_dict
MultipleRegexRead_config_process(self, opt_dict) ==
    LET p == process_dict(opt_dict)
    IN  IF ~p.ok THEN Raise(self, "ConfigError")
        ELSE LET s1 == SetIfPresent(self, p.val, "clean_whitespaces")
                 s2 == IF "exclusive_match" \in DOMAIN opt_dict
                       THEN [s1 EXCEPT !.exclusive_match =
                                           p.val["exclusive_match"]]
                       ELSE s1
                 s3 == SetRegexDict(s2, p.val)
                 s4 == SetIfPresent(s3, p.val, "stop_on_match")
             IN  SetIfPresent(s4, p.val, "stop_token")

\* BlockRegexRead.config_process; clean_whitespaces is looked up in the
\* raw opt_dict
BlockRegexRead_config_process(self, opt_dict) ==
    LET p == process_dict(opt_dict)
    IN  IF ~p.ok THEN Raise(self, "ConfigError")
        ELSE LET s1 == SetIfPresent(self, p.val, "block_end_token")
                 s2 == IF "clean_whitespaces" \in DOMAIN opt_dict
                       THEN [s1 EXCEPT !.clean_whitespaces =
                                           p.val["clean_whitespaces"]]
                       ELSE s1
                 s3 == SetRegexDict(s2, p.val)
             IN  SetIfPresent(s3, p.val, "stop_token")

\* self.config_process(opt_dict), dispatched on the class
config_process(self, opt_dict) ==
    CASE kind = "RegexRead" -> RegexRead_config_process(self, opt_dict)
      [] kind = "ReadBetweenTokens" ->
             ReadBetweenTokens_config_process(self, opt_dict)
      [] kind = "ReadBetweenWhitespaces" ->
             ReadBetweenWhitespaces_config_process(self, opt_dict)
      [] kind = "MultipleRegexRead" ->
             MultipleRegexRead_config_process(self, opt_dict)
      [] kind = "BlockRegexRead" ->
             BlockRegexRead_config_process(self, opt_dict)

N_D == <<"N", " ", "D">>

\* the raw option dicts a stage is configured with
OptDicts ==
    CASE kind = "RegexRead" ->
             << [stop_token |-> RawStr(N_D)],
                [stop_token |-> RawStr(END), stop_on_match |-> RawBool(TRUE)],
                [regex |-> RawStr(WORD)],
                [regex |-> RawStr(WORD), stop_on_match |-> RawStr(<<"1">>)],
                [stop_token |-> RawStr(END), verbose |-> RawBool(TRUE)] >>
      [] kind = "ReadBetweenTokens" ->
             << [token1 |-> RawStr(HASH)],
                [token2 |-> RawStr(RBRACKET)],
                [token1 |-> RawStr(LBRACKET), token2 |-> RawStr(RBRACKET)],
                [store_names |-> RawBool(TRUE)],
                [token2 |-> RawStr(HASH), store_names |-> RawBool(TRUE)],
                [token1 |-> RawStr(HASH), store_names |-> RawStr(<<"1">>)] >>
      [] kind = "ReadBetweenWhitespaces" ->
             << [clean_whitespaces |-> RawBool(FALSE)],
                EmptyDict,
                [clean_whitespaces |-> RawStr(<<"1">>)],
                [clean_whitespaces |-> RawBool(FALSE),
                 verbose |-> RawBool(TRUE)] >>
      [] kind = "MultipleRegexRead" ->
             << [regex_list |-> RawList(<<"kv", KV, "w", WORD, "kv", NUM>>)],
                [regex_list |-> RawList(<<"w", WORD>>),
                 exclusive_match |-> RawBool(TRUE)],
                [stop_token |-> RawStr(N_D), stop_on_match |-> RawBool(FALSE)],
                [stop_token |-> RawStr(END), stop_on_match |-> RawBool(FALSE),
                 clean_whitespaces |-> RawBool(FALSE)],
                [clean_whitespaces |-> RawBool(FALSE),
                 regex_list |-> RawList(<<"kv", KV, "w">>)] >>
      [] kind = "BlockRegexRead" ->
             << [regex_list |-> RawList(<<"kv", KV, "w", WORD, "kv", NUM>>)],
                [stop_token |-> RawStr(N_D)],
                [stop_token |-> RawStr(END),
                 clean_whitespaces |-> RawBool(FALSE)],
                [block_end_token |-> RawStr(HASH),
                 regex_list |-> RawList(<<"kv", KV, "w">>)],
                [block_end_token |-> RawStr(HASH),
                 exclusive_match |-> RawBool(TRUE)],
                [block_end_token |-> RawStr(N_D),
                 regex_list |-> RawList(<<"w", WORD>>)] >>

\* what every constructor leaves behind, and the stream before the first read
InitCommon ==
    /\ result_data = None
    /\ pc = "idle"
    /\ execute_once = FALSE
    /\ continue_exec = FALSE
    /\ process_input = "file"
    /\ sample = None
    /\ delivered = 0
    /\ lines_read = <<>>
    /\ match_log = <<>>
    /\ reads = 0
    /\ cfg_calls = 0
    /\ cfg_status = "none"
    /\ cfg_opt = EmptyDict
    /\ sample_live = FALSE
    /\ shared_dict = (IsDictKind /\ regex_dict = <<>>)
    /\ peer_regex_dict = <<>>

\* a stage of any of the four scanner classes
Init ==
    /\ \/ RegexRead_init
       \/ ReadBetweenWhitespaces_init
       \/ MultipleRegexRead_init
       \/ BlockRegexRead_init
    /\ InitCommon

\* a MultipleRegexRead stage
InitMulti == MultipleRegexRead_init /\ InitCommon

\* a BlockRegexRead stage
InitBlock == BlockRegexRead_init /\ InitCommon

\* a ReadBetweenTokens stage
InitTokens == ReadBetweenTokens_init /\ InitCommon

\* a ReadBetweenWhitespaces stage
InitWs == ReadBetweenWhitespaces_init /\ InitCommon

\* the stages that are reconfigured after construction: RegexRead(KV),
\* ReadBetweenWhitespaces(), MultipleRegexRead(False, regex_dict=KvDict),
\* BlockRegexRead("<END>", regex_dict=KvDict), the last two also built
\* without a binding map, and a ReadBetweenTokens with any of the token
\* arguments
InitCfg ==
    /\ \/ RegexRead_init /\ regex = KV /\ ~stop_on_match
       \/ ReadBetweenWhitespaces_init /\ clean_whitespaces
       \/ MultipleRegexRead_init /\ stop_on_match /\ ~exclusive_match
             /\ clean_whitespaces /\ regex_dict = KvDict
       \/ BlockRegexRead_init /\ block_end_token = ENDTAG
             /\ clean_whitespaces /\ regex_dict = KvDict
       \/ MultipleRegexRead_init_default
       \/ BlockRegexRead_init_default
       \/ ReadBetweenTokens_init /\ ~store_names
    /\ stop_token = None
    /\ InitCommon

\* ------------------------------------------------------ whitespace cleanup
\* RegexRead._cleanup_whitespaces
RegexRead_cleanup_whitespaces(line) == RemoveWs(line)

ReadBetweenWhitespaces_cleanup_keep(line) == rstrip(line) \o <<" ">>

\* ReadBetweenWhitespaces._cleanup_whitespaces
ReadBetweenWhitespaces_cleanup_whitespaces(line) ==
    LET l1 == IF clean_whitespaces THEN CollapseWs(line) ELSE line
    IN  rstrip(l1) \o <<" ">>

\* MultipleRegexRead._cleanup_whitespaces
MultipleRegexRead_cleanup_whitespaces(line) ==
    IF clean_whitespaces THEN RegexRead_cleanup_whitespaces(line) ELSE line

\* BlockRegexRead._cleanup_whitespaces
BlockRegexRead_cleanup_whitespaces(line) ==
    IF clean_whitespaces THEN RegexRead_cleanup_whitespaces(line) ELSE line

\* self._cleanup_whitespaces(line), dispatched on the class
cleanup_whitespaces(line) ==
    CASE kind = "RegexRead" -> RegexRead_cleanup_whitespaces(line)
      [] kind = "ReadBetweenWhitespaces" ->
             ReadBetweenWhitespaces_cleanup_whitespaces(line)
      [] kind = "MultipleRegexRead" ->
             MultipleRegexRead_cleanup_whitespaces(line)
      [] kind = "BlockRegexRead" -> BlockRegexRead_cleanup_whitespaces(line)

\* ------------------------------------------------------- match and store
\* RegexRead._match_regex
match_regex(rx, text_line) == FindAll(rx, text_line)

\* the (regex_id, regex) combinations in the order the nested for loops of
\* _match_and_store visit them
RECURSIVE Combos(_)
Combos(d) ==
    IF d = <<>> THEN <<>>
    ELSE [i \in 1..Len(Head(d).pats) |->
             [id |-> Head(d).id, pat |-> Head(d).pats[i]]]
         \o Combos(Tail(d))

DictSet(d, k, v) ==
    [x \in DOMAIN d \cup {k} |-> IF x = k THEN v ELSE d[x]]

\* The state a _match_and_store call works on and leaves behind:
\*   ret          the value returned to distill
\*   match_found  the local match_found
\*   raised       an exception left the method
MState(rd, rx, bc) ==
    [ret |-> FALSE, match_found |-> FALSE, raised |-> FALSE,
     result_data |-> rd, regex |-> rx, block_count |-> bc]

RegexRead_match_and_store_consume(st, text_line) ==
    LET result_list == match_regex(st.regex, text_line)
    IN  IF result_list # <<>>
        THEN [st EXCEPT !.match_found = TRUE, !.ret = TRUE,
                        !.regex = WORD,
                        !.result_data = st.result_data \o result_list]
        ELSE st

\* RegexRead._match_and_store
RegexRead_match_and_store(st, text_line) ==
    LET result_list == match_regex(st.regex, text_line)
    IN  IF result_list # <<>>
        THEN [st EXCEPT !.match_found = TRUE, !.ret = TRUE,
                        !.result_data = st.result_data \o result_list]
        ELSE st

\* mutant: every combination is tried, exclusive_match or not
MultipleRegexRead_try_all(st, c, text_line) ==
    LET temp == match_regex(c.pat, text_line)
        s1   == [st EXCEPT !.regex = c.pat]
    IN  IF temp # <<>>
        THEN [s1 EXCEPT
                !.match_found = TRUE,
                !.result_data =
                   IF c.id \in DOMAIN st.result_data
                   THEN DictSet(st.result_data, c.id,
                                st.result_data[c.id] \o temp)
                   ELSE DictSet(st.result_data, c.id, temp)]
        ELSE s1

MultipleRegexRead_try_overwrite(st, c, text_line) ==
    IF ~(st.match_found /\ exclusive_match)
    THEN LET temp == match_regex(c.pat, text_line)
             s1   == [st EXCEPT !.regex = c.pat]
         IN  IF temp # <<>>
             THEN [s1 EXCEPT
                     !.match_found = TRUE,
                     !.result_data = DictSet(st.result_data, c.id, temp)]
             ELSE s1
    ELSE st

\* MultipleRegexRead._match_and_store: one pass of the inner loop body
MultipleRegexRead_try(st, c, text_line) ==
    IF ~(st.match_found /\ exclusive_match)
    THEN LET temp == match_regex(c.pat, text_line)
             s1   == [st EXCEPT !.regex = c.pat]
         IN  IF temp # <<>>
             THEN [s1 EXCEPT
                     !.match_found = TRUE,
                     !.result_data =
                        IF c.id \in DOMAIN st.result_data
                        THEN DictSet(st.result_data, c.id,
                                     st.result_data[c.id] \o temp)
                        ELSE DictSet(st.result_data, c.id, temp)]
             ELSE s1
    ELSE st

RECURSIVE MultipleRegexRead_loop(_, _, _, _)
MultipleRegexRead_loop(st, cs, k, text_line) ==
    IF k > Len(cs) THEN st
    ELSE MultipleRegexRead_loop(MultipleRegexRead_try(st, cs[k], text_line),
                                cs, k + 1, text_line)

\* MultipleRegexRead._match_and_store
MultipleRegexRead_match_and_store(st, text_line) ==
    LET r == MultipleRegexRead_loop(st, Combos(regex_dict), 1, text_line)
    IN  [r EXCEPT !.ret = r.match_found]

\* mutant: a new entry is appended whatever the last block id is
BlockRegexRead_store_append(rd, id, bc, temp) ==
    IF id \in DOMAIN rd
    THEN DictSet(rd, id, Append(rd[id], <<bc, temp>>))
    ELSE DictSet(rd, id, << <<bc, temp>> >>)

\* BlockRegexRead._match_and_store: the body of  if temp:
BlockRegexRead_store(rd, id, bc, temp) ==
    IF id \in DOMAIN rd
    THEN LET old_data == rd[id]
             last     == old_data[Len(old_data)]
         IN  IF last[1] = bc
             THEN DictSet(rd, id,
                     [old_data EXCEPT ![Len(old_data)] =
                                         <<last[1], last[2] \o temp>>])
             ELSE DictSet(rd, id, Append(old_data, <<bc, temp>>))
    ELSE DictSet(rd, id, << <<bc, temp>> >>)

\* mutant: the captures are stored without the test  if temp:
BlockRegexRead_try_unguarded(st, c, text_line) ==
    IF ~st.match_found
    THEN LET temp == match_regex(c.pat, text_line)
         IN  [st EXCEPT
                !.regex = c.pat,
                !.match_found = (temp # <<>>),
                !.result_data = BlockRegexRead_store(st.result_data,
                                   c.id, st.block_count, temp)]
    ELSE st

\* BlockRegexRead._match_and_store: one pass of the inner loop body
BlockRegexRead_try(st, c, text_line) ==
    IF ~st.match_found
    THEN LET temp == match_regex(c.pat, text_line)
             s1   == [st EXCEPT !.regex = c.pat]
         IN  IF temp # <<>>
             THEN [s1 EXCEPT
                     !.match_found = TRUE,
                     !.result_data = BlockRegexRead_store(st.result_data,
                                        c.id, st.block_count, temp)]
             ELSE s1
    ELSE st

RECURSIVE BlockRegexRead_loop_nobreak(_, _, _, _)
\* mutant: the loops carry on after a match and store every match
BlockRegexRead_loop_nobreak(st, cs, k, text_line) ==
    IF k > Len(cs) THEN st
    ELSE BlockRegexRead_loop_nobreak(
             BlockRegexRead_try([st EXCEPT !.match_found = FALSE],
                                cs[k], text_line),
             cs, k + 1, text_line)

RECURSIVE BlockRegexRead_loop(_, _, _, _)
\* the nested loops, left by the two breaks once match_found is set
BlockRegexRead_loop(st, cs, k, text_line) ==
    IF k > Len(cs) \/ st.match_found THEN st
    ELSE BlockRegexRead_loop(BlockRegexRead_try(st, cs[k], text_line),
                             cs, k + 1, text_line)

\* mutant: the line is compared with the token instead of searched for it
BlockRegexRead_count_equal(bc, text_line) ==
    IF block_end_token = text_line THEN bc + 1 ELSE bc

\* if self.block_end_token in text_line: self._block_count += 1
BlockRegexRead_count(bc, text_line) ==
    IF Contains(block_end_token, text_line) THEN bc + 1 ELSE bc

\* mutant: a block_end_token that is None is taken as a token no line holds
BlockRegexRead_match_and_store_absent(st, text_line) ==
    LET s1 == [st EXCEPT
                 !.block_count = IF block_end_token = None
                                 THEN st.block_count
                                 ELSE BlockRegexRead_count(st.block_count,
                                                           text_line)]
        r  == BlockRegexRead_loop(s1, Combos(regex_dict), 1, text_line)
    IN  [r EXCEPT !.ret = FALSE]

\* BlockRegexRead._match_and_store.  The method has no return statement:
\* distill receives None, which is false in  match_found and stop_on_match.
\* With block_end_token None the membership test raises TypeError.
BlockRegexRead_match_and_store(st, text_line) ==
    IF block_end_token = None
    THEN [st EXCEPT !.raised = TRUE]
    ELSE LET s1 == [st EXCEPT
                      !.block_count = BlockRegexRead_count(st.block_count,
                                                           text_line)]
             r  == BlockRegexRead_loop(s1, Combos(regex_dict), 1, text_line)
         IN  [r EXCEPT !.ret = FALSE]

\* self._match_and_store(clean_line), dispatched on the class
match_and_store(st, text_line) ==
    CASE kind \in {"RegexRead", "ReadBetweenWhitespaces"} ->
             RegexRead_match_and_store(st, text_line)
      [] kind = "MultipleRegexRead" ->
             MultipleRegexRead_match_and_store(st, text_line)
      [] kind = "BlockRegexRead" ->
             BlockRegexRead_match_and_store(st, text_line)

\* mutant: the accumulator is only initialised for the first call
reset_result_data_once ==
    IF pc = "idle" THEN (IF IsDictKind THEN EmptyDict ELSE <<>>)
    ELSE result_data

\* self._reset_result_data(): the new value of result_data
reset_result_data ==
    IF IsDictKind THEN EmptyDict ELSE <<>>

reset_in_place == FALSE

\* self.result_data = [] (or dict(), {}) binds the attribute to a new
\* object; the object bound before is not emptied
reset_rebinds == TRUE

\* ------------------------------------------------------------------ distill
\* the positional pairing of ReadBetweenTokens.distill:
\*   for i, name in enumerate(names): dict_data[name] = data[i]
PairNames_first(names, data) ==
    [n \in {names[i] : i \in 1..Len(names)} |->
        data[SetMin({i \in 1..Len(names) : names[i] = n})]]

PairNames(names, data) ==
    [n \in {names[i] : i \in 1..Len(names)} |->
        data[SetMax({i \in 1..Len(names) : names[i] = n})]]

StreamLines ==
    CASE kind = "ReadBetweenTokens" -> TokenLines
      [] kind = "ReadBetweenWhitespaces" -> WsLines
      [] OTHER -> Lines

Readable == IF delivered < MaxLines THEN StreamLines \cup {EOF} ELSE {EOF}

\* mutant: the negation of stop_on_match is lost
ExecuteOnce_unnegated == (stop_token = None) /\ stop_on_match

\* execute_once = (self.stop_token is None) and not self.stop_on_match
ExecuteOnce == (stop_token = None) /\ ~stop_on_match

\* mutant: the stop token is looked for in the normalized line
StopTokenFound_clean(line) ==
    stop_token # None /\ Contains(stop_token, cleanup_whitespaces(line))

\* self.stop_token is not None and self.stop_token in line
StopTokenFound(line) == stop_token # None /\ Contains(stop_token, line)

\* mutant: the stop_on_match test is left out
StopOnMatch_omitted(match_found) == FALSE

\* match_found and self.stop_on_match
StopOnMatch(match_found) == match_found /\ stop_on_match

\* mutant: an exhausted call hands back a fresh accumulator
ReturnedSample_dropped ==
    IF process_input = "None" THEN reset_result_data ELSE result_data

\* the sample of  return process_input, self.result_data
ReturnedSample == result_data

\* RegexRead.distill, up to the loop
DistillBegin ==
    /\ pc \in {"idle", "done"}
    /\ process_input = "file"
    /\ execute_once' = ExecuteOnce
    /\ continue_exec' = TRUE
    /\ result_data' = reset_result_data
    /\ block_count' = IF kind = "BlockRegexRead" THEN 0 ELSE block_count
    /\ pc' = "loop"
    /\ lines_read' = <<>>
    /\ match_log' = <<>>
    /\ reads' = 0
    /\ sample_live' = (sample_live /\ ~reset_rebinds)
    /\ UNCHANGED <<config, regex, process_input, sample, delivered>>

\* one iteration of the while loop that reads a line
DistillLine(line) ==
    /\ pc = "loop"
    /\ continue_exec
    /\ line # EOF
    /\ LET ce1 == IF execute_once THEN FALSE ELSE continue_exec
           ce2 == IF StopTokenFound(line) THEN FALSE ELSE ce1
           clean_line == cleanup_whitespaces(line)
           m   == match_and_store(MState(result_data, regex, block_count),
                                  clean_line)
           ce3 == IF StopOnMatch(m.ret) THEN FALSE ELSE ce2
       IN  /\ result_data' = m.result_data
           /\ regex' = m.regex
           /\ block_count' = m.block_count
           /\ continue_exec' = IF m.raised THEN ce2 ELSE ce3
           /\ pc' = IF m.raised THEN "raised" ELSE "loop"
           /\ match_log' = Append(match_log, m.match_found)
    /\ lines_read' = Append(lines_read, line)
    /\ delivered' = delivered + 1
    /\ reads' = reads + 1
    /\ UNCHANGED <<config, execute_once, process_input, sample, sample_live>>

DistillEOF_spin ==
    /\ pc = "loop"
    /\ continue_exec
    /\ EOF \in Readable
    /\ process_input' = "None"
    /\ UNCHANGED <<config, regex, result_data, block_count, pc, execute_once,
                   continue_exec, sample, delivered, lines_read, match_log,
                   sample_live, reads>>

\* the iteration in which readline() finds the stream exhausted
DistillEOF ==
    /\ pc = "loop"
    /\ continue_exec
    /\ EOF \in Readable
    /\ process_input' = "None"
    /\ continue_exec' = FALSE
    /\ reads' = reads + 1
    /\ UNCHANGED <<config, regex, result_data, block_count, pc, execute_once,
                   sample, delivered, lines_read, match_log, sample_live>>

\* return process_input, self.result_data
DistillReturn ==
    /\ pc = "loop"
    /\ ~continue_exec
    /\ pc' = "done"
    /\ sample' = ReturnedSample
    /\ sample_live' = TRUE
    /\ UNCHANGED <<config, regex, result_data, block_count, execute_once,
                   continue_exec, process_input, delivered, lines_read,
                   match_log, reads>>

\* ReadBetweenTokens.distill.  re.findall raises TypeError when the pattern
\* is None, data[i] raises IndexError when there are more names than
\* captures.
ReadBetweenTokens_distill(line) ==
    /\ kind = "ReadBetweenTokens"
    /\ pc \in {"idle", "done"}
    /\ process_input = "file"
    /\ reads' = 1
    /\ IF line = EOF
       THEN /\ process_input' = "None"
            /\ sample' = None
            /\ pc' = "done"
            /\ lines_read' = <<>>
            /\ UNCHANGED delivered
       ELSE /\ lines_read' = <<line>>
            /\ delivered' = delivered + 1
            /\ UNCHANGED process_input
            /\ IF regex = NoRegex
               THEN pc' = "TypeError" /\ UNCHANGED sample
               ELSE LET clean_line == RegexRead_cleanup_whitespaces(line)
                        data  == FindAll(regex, clean_line)
                        names == Split(Sub(regex, <<" ">>, clean_line))
                    IN  IF ~store_names
                        THEN pc' = "done" /\ sample' = data
                        ELSE IF Len(names) > Len(data)
                        THEN pc' = "IndexError" /\ UNCHANGED sample
                        ELSE pc' = "done" /\ sample' = PairNames(names, data)
    /\ sample_live' = FALSE
    /\ UNCHANGED <<config, regex, result_data, block_count, execute_once,
                   continue_exec, match_log>>

\* stage.config_process(opt_dict), called between distill calls
ConfigProcess(opt_dict) ==
    /\ pc \in {"idle", "done"}
    /\ cfg_calls < MaxConfigs
    /\ cfg_calls' = cfg_calls + 1
    /\ cfg_opt' = opt_dict
    /\ LET s == config_process(Self, opt_dict)
       IN  /\ cfg_status' = s.status
           /\ regex' = s.regex
           /\ stop_on_match' = s.stop_on_match
           /\ stop_token' = s.stop_token
           /\ exclusive_match' = s.exclusive_match
           /\ clean_whitespaces' = s.clean_whitespaces
           /\ regex_dict' = s.regex_dict
           /\ block_end_token' = s.block_end_token
           /\ token1' = s.token1
           /\ token2' = s.token2
           /\ store_names' = s.store_names
           /\ shared_dict' = (shared_dict /\ ~s.rebound)
           /\ peer_regex_dict' = IF shared_dict /\ ~s.rebound
                                 THEN s.regex_dict ELSE peer_regex_dict
    /\ UNCHANGED <<kind, result_data, block_count, pc, execute_once,
                   continue_exec, process_input, sample, delivered,
                   lines_read, match_log, reads, sample_live>>

\* the lines a stream can deliver to a reconfigured stage
CfgLines ==
    CASE kind = "ReadBetweenTokens" ->
             { <<"[", "x", "]", " ", "[", "y", "]", "\n">>,
               <<"#", "x", "#", "\n">> }
      [] kind = "ReadBetweenWhitespaces" ->
             { <<" ", "a", " ", "b", "\n">>, <<"x", "=", "1", " ", "\n">> }
      [] OTHER ->
             { <<"<", "E", "N", " ", "D", ">", "\n">>,
               <<"x", "=", "1", "\n">>,
               <<"<", "E", "N", "D", ">", "\n">> }

CfgReadable ==
    IF delivered < MaxCfgLines THEN CfgLines \cup {EOF} ELSE {EOF}

Next ==
    \/ DistillBegin
    \/ \E line \in Readable : DistillLine(line)
    \/ DistillEOF
    \/ DistillReturn

Spec == Init /\ [][Next]_vars

\* the same program, the stage being a MultipleRegexRead
SpecMulti == InitMulti /\ [][Next]_vars

\* the same program, the stage being a BlockRegexRead
SpecBlock == InitBlock /\ [][Next]_vars

\* the same program, the stage being a ReadBetweenWhitespaces
SpecWs == InitWs /\ [][Next]_vars

\* a ReadBetweenTokens stage and its distill calls
NextTokens == \E line \in Readable : ReadBetweenTokens_distill(line)

SpecTokens == InitTokens /\ [][NextTokens]_vars

\* a stage of any class: config_process calls between distill calls
NextCfg ==
    \/ \E i \in 1..Len(OptDicts) : ConfigProcess(OptDicts[i])
    \/ kind # "ReadBetweenTokens" /\ DistillBegin
    \/ \E line \in CfgReadable : DistillLine(line)
    \/ DistillEOF
    \/ DistillReturn
    \/ \E line \in CfgReadable : ReadBetweenTokens_distill(line)

SpecCfg == InitCfg /\ [][NextCfg]_vars

\* what every step of a distill call in progress changes: a read or the
\* return
progress == <<pc, process_input, reads>>

\* the same program over a finite stream: a pending readline() eventually
\* finds the end of the stream unless it delivers a line, and a loop whose
\* flag is down returns (the code is sequential); calls are up to the caller
SpecCfgFair ==
    SpecCfg /\ WF_progress(DistillEOF) /\ WF_progress(DistillReturn)

TypeOK ==
    /\ kind \in Kinds \cup {"ReadBetweenTokens"}
    /\ pc \in {"idle", "loop", "done", "raised", "TypeError", "IndexError"}
    /\ process_input \in {"file", "None"}
    /\ delivered \in 0..MaxLines
    /\ block_count \in 0..MaxLines

\* ------------------------------------------------- definitions for claims
Last(q) == q[Len(q)]

IsListKind == kind \in {"RegexRead", "ReadBetweenWhitespaces"}

RECURSIVE ExpectedList(_)
\* the captures of the single pattern on the normalized lines, in order
ExpectedList(ls) ==
    IF ls = <<>> THEN <<>>
    ELSE ExpectedList(SubSeq(ls, 1, Len(ls) - 1))
            \o FindAll(regex, cleanup_whitespaces(Last(ls)))

\* positions of the (identifier, pattern) combinations that match a line
MatchingCombos(line) ==
    LET cs == Combos(regex_dict)
        cl == cleanup_whitespaces(line)
    IN  {k \in 1..Len(cs) : FindAll(cs[k].pat, cl) # <<>>}

\* the first combination in registration order that matches the line
FirstCombo(line) == Combos(regex_dict)[SetMin(MatchingCombos(line))]

\* at least one pattern of the stage produces captures on the line
LineHasCaptures(line) ==
    IF IsListKind THEN FindAll(regex, cleanup_whitespaces(line)) # <<>>
    ELSE MatchingCombos(line) # {}

RECURSIVE IdCaptures(_, _, _)
\* captures of the patterns of one identifier on a normalized line, the
\* patterns taken in insertion order (cs is the list of combinations)
IdCaptures(id, cs, cl) ==
    IF cs = <<>> THEN <<>>
    ELSE (IF Head(cs).id = id THEN FindAll(Head(cs).pat, cl) ELSE <<>>)
            \o IdCaptures(id, Tail(cs), cl)

\* what one line adds to an empty accumulator
LineCaptures(line) ==
    LET cl == cleanup_whitespaces(line)
    IN  IF IsListKind THEN FindAll(regex, cl)
        ELSE IF exclusive_match
        THEN LET c == FirstCombo(line)
             IN  [id \in {c.id} |-> FindAll(c.pat, cl)]
        ELSE [id \in {Combos(regex_dict)[k].id : k \in MatchingCombos(line)}
                 |-> IdCaptures(id, Combos(regex_dict), cl)]

\* C1: with a stop token and stop_on_match false, a call reads up to and
\* including the first line that holds the stop token and nothing after it,
\* it ends with a live cursor only on such a line, and (RegexRead) the sample
\* holds the captures of every line read, the stopping line included.
C1_StopTokenHalts ==
    (pc \in {"loop", "done"} /\ stop_token # None /\ ~stop_on_match) =>
        /\ \A i \in 1..(Len(lines_read) - 1) :
               ~Contains(stop_token, lines_read[i])
        /\ (lines_read # <<>> /\ Contains(stop_token, Last(lines_read)))
               => ~continue_exec
        /\ (pc = "done" /\ process_input = "file")
               => (lines_read # <<>> /\ Contains(stop_token, Last(lines_read)))
        /\ (pc = "done" /\ kind = "RegexRead")
               => sample = ExpectedList(lines_read)

C1_Witness ==
    /\ kind = "RegexRead" /\ stop_token = END /\ ~stop_on_match
    /\ pc = "done" /\ process_input = "file"
    /\ Len(lines_read) >= 2
    /\ delivered < MaxLines
    /\ Contains(stop_token, Last(lines_read))
    /\ FindAll(regex, cleanup_whitespaces(Last(lines_read))) # <<>>
    /\ Len(sample) >= 2

\* C2: with no stop token and stop_on_match false every scanner makes
\* exactly one read per call and processes at most that one line.
C2_SingleShot ==
    (pc # "idle" /\ stop_token = None /\ ~stop_on_match) =>
        /\ reads <= 1
        /\ Len(lines_read) <= 1
        /\ (reads = 1 => ~continue_exec)
        /\ (pc = "done" => reads = 1)

C2_Witness ==
    /\ kind = "MultipleRegexRead" /\ stop_token = None /\ ~stop_on_match
    /\ pc = "done" /\ reads = 1 /\ Len(lines_read) = 1
    /\ ~LineHasCaptures(lines_read[1])
    /\ delivered < MaxLines

\* C3: with stop_on_match a call stops after the first line that produced
\* captures: no earlier line of the call produced any, the line's captures
\* are the accumulator and the sample, and nothing is read after it.
C3_StopOnMatch ==
    (pc \in {"loop", "done"} /\ stop_on_match) =>
        /\ \A i \in 1..(Len(lines_read) - 1) :
               ~LineHasCaptures(lines_read[i])
        /\ (lines_read # <<>> /\ LineHasCaptures(Last(lines_read))) =>
               /\ ~continue_exec
               /\ result_data = LineCaptures(Last(lines_read))
               /\ pc = "done" => sample = LineCaptures(Last(lines_read))

C3_Witness ==
    /\ kind = "MultipleRegexRead" /\ stop_on_match /\ stop_token = None
    /\ pc = "done" /\ process_input = "file"
    /\ Len(lines_read) >= 2
    /\ delivered < MaxLines
    /\ LineHasCaptures(Last(lines_read))
    /\ DOMAIN sample # {}

\* C4: a call ended by exhaustion returns the exhausted sentinel together
\* with everything accumulated from the lines it read.
C4_ExhaustionKeepsPartial ==
    (pc = "done" /\ process_input = "None") =>
        /\ sample = result_data
        /\ IsListKind => sample = ExpectedList(lines_read)
        /\ IsDictKind =>
              \A i \in 1..Len(lines_read) :
                  LineHasCaptures(lines_read[i])
                      => FirstCombo(lines_read[i]).id \in DOMAIN sample

C4_Witness ==
    /\ kind = "RegexRead"
    /\ pc = "done" /\ process_input = "None"
    /\ Len(lines_read) >= 2
    /\ Len(sample) >= 2

\* C5: when a call starts its loop the accumulator is empty and the block
\* counter is 0, whatever earlier calls left behind.
C5_ResetAtStart ==
    (pc = "loop" /\ reads = 0) =>
        /\ IsListKind => result_data = <<>>
        /\ IsDictKind => DOMAIN result_data = {}
        /\ kind = "BlockRegexRead" => block_count = 0

C5_Witness ==
    /\ kind = "BlockRegexRead"
    /\ pc = "loop" /\ reads = 0
    /\ delivered > 0
    /\ \E id \in DOMAIN sample : sample[id][1][1] >= 1

\* a step of the loop that read a line
LineStep == pc = "loop" /\ Len(lines_read') = Len(lines_read) + 1

\* the accumulator entry of an identifier, empty when it has none
Entry(rd, id) == IF id \in DOMAIN rd THEN rd[id] ELSE <<>>

\* C6: an exclusive MultipleRegexRead records, per line, the captures of the
\* first (identifier, pattern) combination that matches and nothing else;
\* which combination that is depends on the line alone.
C6_ExclusivePerLine ==
    [][ (kind = "MultipleRegexRead" /\ exclusive_match /\ LineStep) =>
          LET line == Last(lines_read')
          IN  IF MatchingCombos(line) = {}
              THEN result_data' = result_data
              ELSE LET c    == FirstCombo(line)
                       caps == FindAll(c.pat, cleanup_whitespaces(line))
                   IN  /\ DOMAIN result_data' = DOMAIN result_data \cup {c.id}
                       /\ \A id \in DOMAIN result_data \ {c.id} :
                              result_data'[id] = result_data[id]
                       /\ result_data'[c.id] =
                              Entry(result_data, c.id) \o caps
      ]_vars

C6_Witness ==
    /\ kind = "MultipleRegexRead" /\ exclusive_match
    /\ pc \in {"loop", "done"}
    /\ Len(lines_read) >= 2
    /\ Cardinality(MatchingCombos(lines_read[1])) >= 2
    /\ DOMAIN result_data = {"kv", "w"}

\* C7 (as claimed): the block counter is the number of lines read so far in
\* the call whose raw text holds the block-boundary token.
C7_CountsRawLines ==
    (kind = "BlockRegexRead" /\ pc \in {"loop", "done"}) =>
        block_count =
            Cardinality({i \in 1..Len(lines_read) :
                            Contains(block_end_token, lines_read[i])})

RECURSIVE AllCaptures(_)
\* the captures of a sequence of (block id, captures) entries, flattened
AllCaptures(es) ==
    IF es = <<>> THEN <<>> ELSE Head(es)[2] \o AllCaptures(Tail(es))

\* C8: a BlockRegexRead line records the captures of the first matching
\* combination only; they go to the entry of the current block id of that
\* identifier, and every other entry of the accumulator stays as it was.
C8_BlockExclusive ==
    [][ (kind = "BlockRegexRead" /\ LineStep) =>
          LET line == Last(lines_read')
          IN  IF pc' = "raised" \/ MatchingCombos(line) = {}
              THEN result_data' = result_data
              ELSE LET c    == FirstCombo(line)
                       caps == FindAll(c.pat, cleanup_whitespaces(line))
                       old  == Entry(result_data, c.id)
                       new  == result_data'[c.id]
                   IN  /\ DOMAIN result_data' = DOMAIN result_data \cup {c.id}
                       /\ \A id \in DOMAIN result_data \ {c.id} :
                              result_data'[id] = result_data[id]
                       /\ Len(new) \in {Len(old), Len(old) + 1}
                       /\ \A j \in 1..(Len(old) - 1) : new[j] = old[j]
                       /\ Last(new)[1] = block_count'
                       /\ AllCaptures(new) = AllCaptures(old) \o caps
      ]_vars

C8_Witness ==
    /\ kind = "BlockRegexRead"
    /\ pc \in {"loop", "done"}
    /\ Len(lines_read) >= 2
    /\ MatchingCombos(lines_read[1]) = {3}
    /\ {Combos(regex_dict)[k].id : k \in MatchingCombos(Last(lines_read))}
          = {"kv", "w"}
    /\ DOMAIN result_data = {"kv", "w"}
    /\ Len(result_data["w"]) = 1

\* C9: a matching BlockRegexRead line extends the last entry of its
\* identifier when that entry carries the current block id, and otherwise
\* appends exactly one new entry (current block id, captures).
C9_BlockAppendRule ==
    [][ (kind = "BlockRegexRead" /\ LineStep /\ pc' = "loop"
            /\ MatchingCombos(Last(lines_read')) # {}) =>
          LET line == Last(lines_read')
              c    == FirstCombo(line)
              caps == FindAll(c.pat, cleanup_whitespaces(line))
              bc   == block_count'
              old  == Entry(result_data, c.id)
          IN  IF old # <<>> /\ Last(old)[1] = bc
              THEN result_data'[c.id] =
                      [old EXCEPT ![Len(old)] = <<bc, Last(old)[2] \o caps>>]
              ELSE result_data'[c.id] = Append(old, <<bc, caps>>)
      ]_vars

C9_Witness ==
    /\ kind = "BlockRegexRead"
    /\ pc \in {"loop", "done"}
    /\ \E id \in DOMAIN result_data :
          /\ Len(result_data[id]) >= 2
          /\ Len(result_data[id][1][2]) >= 2

\* the scenario of C10
ScenarioLines == << <<"<", "E", "N", "D", ">", "\n">>,
                    <<"x", "=", "1", "\n">>,
                    <<"<", "E", "N", "D", ">", "\n">>,
                    <<"y", "=", "2", "\n">> >>
ScenarioCount == <<1, 1, 2, 2>>
ScenarioSample ==
    [id \in {"kv"} |-> << <<1, << <<"x", "=", "1">> >> >>,
                          <<2, << <<"y", "=", "2">> >> >> >>]

IsPrefix(p, q) == Len(p) <= Len(q) /\ p = SubSeq(q, 1, Len(p))

\* the first call on a stream that starts as the scenario does
ScenarioCall ==
    /\ kind = "BlockRegexRead"
    /\ block_end_token = ENDTAG
    /\ regex_dict = KvDict
    /\ pc \in {"loop", "done"}
    /\ delivered = Len(lines_read)
    /\ IsPrefix(lines_read, ScenarioLines)

\* the outcome C10 describes: the counter is 1 from line 1 and 2 from line
\* 3, the call does not return before the four lines are read, and having
\* read them it returns the sample of the scenario
ScenarioOutcome ==
    /\ lines_read # <<>> => block_count = ScenarioCount[Len(lines_read)]
    /\ pc = "done" =>
          /\ process_input = "None" \/ lines_read = ScenarioLines
          /\ lines_read = ScenarioLines => sample = ScenarioSample

\* C10 (as claimed): boundary token and the kv binding alone give the outcome.
C10_ScenarioAsClaimed == ScenarioCall => ScenarioOutcome

\* C10 (amended): the outcome needs a stop token that occurs in no line of
\* the scenario; the call then ends by exhaustion after line 4.
C10_ScenarioWithStopToken ==
    (/\ ScenarioCall
     /\ stop_token # None
     /\ \A i \in 1..Len(ScenarioLines) :
            ~Contains(stop_token, ScenarioLines[i]))
        => ScenarioOutcome

C10_Witness ==
    /\ ScenarioCall
    /\ stop_token = HASH
    /\ pc = "done"
    /\ process_input = "None"
    /\ lines_read = ScenarioLines
    /\ sample = ScenarioSample

\* ------------------------------------------------ ReadBetweenTokens claims
\* tk occurs in s at position i
StartsAt(tk, s, i) ==
    /\ i + Len(tk) - 1 <= Len(s)
    /\ SubSeq(s, i, i + Len(tk) - 1) = tk

RECURSIVE Between(_, _, _, _)
\* the texts that stand between an occurrence of t1 and the nearest
\* following occurrence of t2, scanning s from position i, left to right
Between(t1, t2, s, i) ==
    IF i > Len(s) THEN <<>>
    ELSE IF ~StartsAt(t1, s, i) THEN Between(t1, t2, s, i + 1)
    ELSE LET js == {j \in (i + Len(t1))..Len(s) : StartsAt(t2, s, j)}
         IN  IF js = {} THEN Between(t1, t2, s, i + 1)
             ELSE <<SubSeq(s, i + Len(t1), SetMin(js) - 1)>>
                      \o Between(t1, t2, s, SetMin(js) + Len(t2))

LineXY == <<"[", "x", "]", " ", "[", "y", "]", "\n">>

LineNamed == <<"n", "a", "m", "e", "1", ":", "[", "x", "]", " ",
               "n", "a", "m", "e", "2", ":", "[", "y", "]", "\n">>

\* a ReadBetweenTokens.distill call that read a line and returned
TokensReturned ==
    /\ kind = "ReadBetweenTokens"
    /\ pc = "done"
    /\ lines_read # <<>>

Bracketed == token1 = LBRACKET /\ token2 = RBRACKET

\* the field names of a line: the whitespace-separated pieces left after
\* every matched span of the normalized line is removed
InferredNames(line) ==
    Split(Sub(regex, <<" ">>, RegexRead_cleanup_whitespaces(line)))

CountMismatch ==
    /\ kind = "ReadBetweenTokens"
    /\ store_names
    /\ regex # NoRegex
    /\ pc \in {"done", "IndexError"}
    /\ lines_read # <<>>
    /\ Len(InferredNames(lines_read[1]))
          # Len(FindAll(regex, RegexRead_cleanup_whitespaces(lines_read[1])))

\* C13: with store_names on, a line whose inferred names and captures
\* differ in number makes distill fail with an AlignmentError: it neither
\* returns a mapping nor fails by indexing out of range.
C13_AlignmentError == CountMismatch => pc = "AlignmentError"

\* ------------------------------------------- ReadBetweenWhitespaces claims
RECURSIVE Words(_)
\* the whitespace-separated words of the lines, in order
Words(ls) ==
    IF ls = <<>> THEN <<>>
    ELSE Words(SubSeq(ls, 1, Len(ls) - 1)) \o Split(Last(ls))

RECURSIVE WordsAfterLeadingEmpty(_)
\* the words of the lines, each line that starts with whitespace giving one
\* empty text before its words
WordsAfterLeadingEmpty(ls) ==
    IF ls = <<>> THEN <<>>
    ELSE WordsAfterLeadingEmpty(SubSeq(ls, 1, Len(ls) - 1))
            \o (IF Last(ls)[1] \in Whitespace THEN << <<>> >> ELSE <<>>)
            \o Split(Last(ls))

LineAlpha == <<"a", "l", "p", "h", "a", " ", " ", " ", "b", "e", "t", "a",
               " ", " ", "g", "a", "m", "m", "a", "\n">>

\* a collapsing ReadBetweenWhitespaces inside or after a distill call
Collapsing ==
    /\ kind = "ReadBetweenWhitespaces"
    /\ clean_whitespaces
    /\ pc \in {"loop", "done"}

\* C14 as stated: a collapsing ReadBetweenWhitespaces returns exactly the
\* words of the lines, without empty captures.
C14_ExactlyTheWords == Collapsing => result_data = Words(lines_read)

\* C14: a collapsing ReadBetweenWhitespaces returns the words of each line
\* in order, the last word included, preceded by one empty capture when
\* the line starts with whitespace (a whitespace-only line gives just the
\* empty capture).
C14_WordsAndLeadingEmpty ==
    Collapsing =>
        /\ result_data = WordsAfterLeadingEmpty(lines_read)
        /\ lines_read = <<LineAlpha>> =>
              result_data = << <<"a", "l", "p", "h", "a">>,
                               <<"b", "e", "t", "a">>,
                               <<"g", "a", "m", "m", "a">> >>

C14_Witness ==
    /\ Collapsing
    /\ pc = "done"
    /\ lines_read = << <<" ", "a", " ", "b", "\n">> >>
    /\ sample = << <<>>, <<"a">>, <<"b">> >>
    /\ delivered >= 2

\* ----------------------------------------------------- configuration claims
\* the attributes config_process can set
configured == <<regex, stop_on_match, stop_token, exclusive_match,
                clean_whitespaces, regex_dict, block_end_token, token1,
                token2, store_names>>

\* the same without the pattern attribute of the base scanner
configured_but_regex == <<stop_on_match, stop_token, exclusive_match,
                          clean_whitespaces, regex_dict, block_end_token,
                          token1, token2, store_names>>

\* a step that is a config_process call
ConfigStep == cfg_calls' = cfg_calls + 1

\* C15: a config_process call that fails leaves every configured attribute
\* as it was before the call.
C15_FailedConfigureKeepsFields ==
    [][ (ConfigStep /\ cfg_status' # "ok") => UNCHANGED configured ]_vars

C15_Witness ==
    /\ kind = "ReadBetweenWhitespaces"
    /\ cfg_status = "ConfigError"
    /\ "clean_whitespaces" \in DOMAIN cfg_opt
    /\ cfg_opt["clean_whitespaces"][1] = "bool"
    /\ clean_whitespaces

\* the last config_process call supplied this one delimiter option only
OnlyToken(name) ==
    /\ kind = "ReadBetweenTokens"
    /\ cfg_calls > 0
    /\ {"token1", "token2"} \cap DOMAIN cfg_opt = {name}
    /\ cfg_opt[name][1] = "str"
    /\ "store_names" \notin DOMAIN cfg_opt

\* C16: a ReadBetweenTokens given one delimiter token only, at construction
\* or through config_process, as token1 or as token2, has both tokens equal
\* to it and the pattern built from it on both sides, and the
\* config_process call succeeds.
C16_SingleTokenMirrored ==
    kind = "ReadBetweenTokens" =>
        /\ (token1 = None \/ token2 = None) => (token1 = token2)
        /\ \A name \in {"token1", "token2"} :
              OnlyToken(name) =>
                 /\ cfg_status = "ok"
                 /\ token1 = cfg_opt[name][2]
                 /\ token2 = cfg_opt[name][2]
                 /\ regex = TokenRegex(cfg_opt[name][2], cfg_opt[name][2])

\* the patterns bound in a regex_dict
BoundPatterns(d) == {Combos(d)[k].pat : k \in 1..Len(Combos(d))}

\* C17 as stated: a step of distill changes no configured attribute, the
\* single pattern of the base scanner included.
C17_DistillKeepsAllFields ==
    [][ ~ConfigStep => UNCHANGED configured ]_vars

\* C17: a step of distill changes no configured attribute, except that
\* MultipleRegexRead and BlockRegexRead overwrite the pattern attribute of
\* the base scanner with a pattern of their regex bindings.
C17_DistillKeepsFieldsButRegex ==
    [][ ~ConfigStep =>
          /\ UNCHANGED configured_but_regex
          /\ regex' # regex =>
                (IsDictKind /\ regex' \in BoundPatterns(regex_dict)) ]_vars

C17_Witness ==
    /\ kind = "MultipleRegexRead"
    /\ pc = "done"
    /\ cfg_status = "ok"
    /\ "regex_list" \in DOMAIN cfg_opt
    /\ Len(regex_dict) = 2
    /\ regex = WORD
    /\ lines_read # <<>>

RECURSIVE FirstOccurrences(_)
\* the identifiers of a list of (identifier, pattern) pairs, each once, in
\* the order of their first occurrence
FirstOccurrences(pairs) ==
    IF pairs = <<>> THEN <<>>
    ELSE LET init == SubSeq(pairs, 1, Len(pairs) - 1)
             id   == Last(pairs)[1]
         IN  IF \E i \in 1..Len(init) : init[i][1] = id
             THEN FirstOccurrences(init)
             ELSE Append(FirstOccurrences(init), id)

RECURSIVE PatternsOf(_, _)
\* the patterns paired with an identifier, in list order
PatternsOf(id, pairs) ==
    IF pairs = <<>> THEN <<>>
    ELSE (IF Head(pairs)[1] = id THEN <<Head(pairs)[2]>> ELSE <<>>)
            \o PatternsOf(id, Tail(pairs))

\* the regex_list of the last config_process call, grouped pairwise
LastRegexList ==
    LET l == cfg_opt["regex_list"][2]
    IN  [i \in 1..(Len(l) \div 2) |-> <<l[2 * i - 1], l[2 * i]>>]

\* the last config_process call succeeded and carried a regex_list
ConfiguredList ==
    /\ IsDictKind
    /\ cfg_status = "ok"
    /\ "regex_list" \in DOMAIN cfg_opt

\* C18: after config_process with a regex_list the bindings hold each
\* identifier once, in order of first occurrence, mapped to all the
\* patterns paired with it in list order, and nothing of the bindings the
\* stage had before.
C18_RegexListFolded ==
    ConfiguredList =>
        LET ids == FirstOccurrences(LastRegexList)
        IN  /\ Len(regex_dict) = Len(ids)
            /\ \A k \in 1..Len(ids) :
                  /\ regex_dict[k].id = ids[k]
                  /\ regex_dict[k].pats = PatternsOf(ids[k], LastRegexList)

C18_Witness ==
    /\ ConfiguredList
    /\ kind = "BlockRegexRead"
    /\ Len(regex_dict) = 2
    /\ regex_dict[1].id = "kv"
    /\ regex_dict[1].pats = <<KV, NUM>>
    /\ regex_dict[2].pats = <<WORD>>

\* C19: in every scanning class and for either cleanup setting, a line read
\* under a stop token ends the scan exactly when the line as read holds
\* the token (or, with stop_on_match, when it matched): a token holding
\* whitespace is found, one that shows only in the normalized line is not.
C19_StopTokenOnRawLine ==
    [][ (LineStep /\ pc' = "loop" /\ stop_token # None) =>
          (~continue_exec' <=>
              \/ Contains(stop_token, Last(lines_read'))
              \/ stop_on_match /\ Last(match_log')) ]_vars

C19_Witness ==
    /\ kind = "MultipleRegexRead"
    /\ clean_whitespaces
    /\ ~stop_on_match
    /\ stop_token = N_D
    /\ pc = "loop"
    /\ ~continue_exec
    /\ Len(lines_read) = 2
    /\ Last(lines_read) = <<"<", "E", "N", " ", "D", ">", "\n">>
    /\ ~Contains(stop_token, cleanup_whitespaces(Last(lines_read)))

RECURSIVE CapturesOver(_, _)
\* the captures of the patterns of one identifier over the lines, in order
CapturesOver(id, ls) ==
    IF ls = <<>> THEN <<>>
    ELSE CapturesOver(id, SubSeq(ls, 1, Len(ls) - 1))
            \o IdCaptures(id, Combos(regex_dict),
                          cleanup_whitespaces(Last(ls)))

\* C20: the accumulator of a non-exclusive MultipleRegexRead maps each
\* identifier to the concatenation, over the lines read and within a line
\* over the identifier's patterns in insertion order, of the captures of
\* each pattern on the normalized line; identifiers without captures are
\* absent.
C20_NonExclusiveConcatenation ==
    (kind = "MultipleRegexRead" /\ ~exclusive_match
       /\ pc \in {"loop", "done"}) =>
        /\ \A k \in 1..Len(regex_dict) :
              Entry(result_data, regex_dict[k].id)
                  = CapturesOver(regex_dict[k].id, lines_read)
        /\ DOMAIN result_data
              = {regex_dict[k].id : k \in
                   {j \in 1..Len(regex_dict) :
                      CapturesOver(regex_dict[j].id, lines_read) # <<>>}}

C20_Witness ==
    /\ kind = "MultipleRegexRead" /\ ~exclusive_match
    /\ regex_dict = TwoDict
    /\ pc = "done"
    /\ Len(lines_read) >= 2
    /\ Cardinality(MatchingCombos(lines_read[1])) >= 2
    /\ Cardinality(MatchingCombos(lines_read[2])) >= 2
    /\ sample = result_data
    /\ DOMAIN sample = {"kv", "w"}
    /\ Len(sample["kv"]) >= 3

\* ------------------------------------------------------- isolation claims
\* C21: no config_process or distill call on a MultipleRegexRead or
\* BlockRegexRead changes what another instance observes: the bindings of
\* an instance built without a binding map stay the empty default, also
\* while the acting instance holds the same default object.
C21_PeerBindingsUntouched ==
    IsDictKind =>
        /\ peer_regex_dict = <<>>
        /\ shared_dict => regex_dict = peer_regex_dict

C21_Witness ==
    /\ IsDictKind
    /\ cfg_calls = 2
    /\ cfg_status = "ok"
    /\ "regex_list" \in DOMAIN cfg_opt
    /\ ~shared_dict
    /\ Len(regex_dict) = 2
    /\ peer_regex_dict = <<>>
    /\ pc = "done"
    /\ lines_read # <<>>

RECURSIVE Replay(_)
\* what a newly built stage with the configuration of this one has in its
\* accumulator and block counter after a call that read the lines ls
Replay(ls) ==
    IF ls = <<>> THEN MState(reset_result_data, regex, 0)
    ELSE LET prev == Replay(SubSeq(ls, 1, Len(ls) - 1))
         IN  match_and_store(
                 MState(prev.result_data, prev.regex, prev.block_count),
                 cleanup_whitespaces(Last(ls)))

C23_Terminates ==
    /\ (pc = "loop") ~> (pc # "loop")
    /\ [](reads <= Len(lines_read) + 1)
    /\ [](process_input = "None" => pc \in {"loop", "done"})
    /\ []((pc = "done" /\ process_input = "None")
              => reads = Len(lines_read) + 1)

C23_Witness ==
    /\ kind = "MultipleRegexRead"
    /\ stop_token = N_D /\ ~stop_on_match
    /\ pc = "done" /\ process_input = "None"
    /\ Len(lines_read) = 3
    /\ reads = 4
    /\ \A i \in 1..3 : ~Contains(stop_token, lines_read[i])
    /\ regex_dict # <<>>
    /\ DOMAIN sample = {}

\* C24: a call returns the exhausted sentinel exactly when one of its reads
\* found no line, and the cursor it was given otherwise, also when the line
\* it stopped on was the last of the stream; the call that only finds the
\* stream exhausted returns an empty accumulator.
C24_SentinelIffReadFoundNoLine ==
    pc = "done" =>
        /\ (process_input = "None") <=> (reads = Len(lines_read) + 1)
        /\ (process_input = "file") <=> (reads = Len(lines_read))
        /\ (kind # "ReadBetweenTokens" /\ process_input = "None"
                /\ lines_read = <<>>)
              => IF IsDictKind THEN DOMAIN sample = {} ELSE sample = <<>>

C24_Witness ==
    /\ kind = "RegexRead"
    /\ stop_token = N_D
    /\ pc = "done" /\ process_input = "None"
    /\ delivered = MaxCfgLines
    /\ lines_read = <<>>
    /\ reads = 1
    /\ sample = <<>>

\* C25 (as claimed): the captures of a BlockRegexRead line that contains the
\* block-boundary token are recorded under the block id that the line has
\* just opened, the counter having been incremented for the line before its
\* patterns were tried.
C25_BoundaryCapturesUnderNewId ==
    [][ (kind = "BlockRegexRead" /\ LineStep /\ pc' # "raised") =>
          LET line == Last(lines_read')
          IN  (Contains(block_end_token, line) /\ MatchingCombos(line) # {})
                  => /\ block_count' = block_count + 1
                     /\ Last(result_data'[FirstCombo(line).id])[1]
                            = block_count + 1
      ]_vars

\* the identifiers of the bindings
BoundIds == {Combos(regex_dict)[k].id : k \in 1..Len(Combos(regex_dict))}

\* some pattern of the identifier produces captures on the line
IdHasCaptures(id, line) ==
    \E k \in MatchingCombos(line) : Combos(regex_dict)[k].id = id

\* C26 (as claimed): the keys of a MultipleRegexRead or BlockRegexRead
\* accumulator are identifiers of the bindings with captures on a line of the
\* call, no key maps to an empty list, and a call none of whose lines
\* matches a pattern raises no error and returns an empty accumulator.
C26_KeysHaveCapturesAndNoError ==
    (IsDictKind /\ pc \in {"loop", "done", "raised"}) =>
        /\ \A id \in DOMAIN result_data :
              /\ id \in BoundIds
              /\ result_data[id] # <<>>
              /\ \E i \in 1..Len(lines_read) :
                    IdHasCaptures(id, lines_read[i])
        /\ (\A i \in 1..Len(lines_read) : ~LineHasCaptures(lines_read[i]))
              => /\ pc # "raised"
                 /\ DOMAIN result_data = {}
                 /\ pc = "done" => DOMAIN sample = {}

\* C27: during and after a BlockRegexRead call the entries of every
\* identifier carry strictly increasing block ids, each between 0 and the
\* block counter, and each entry holds at least one capture.
C27_BlockEntriesOrdered ==
    (kind = "BlockRegexRead" /\ pc \in {"loop", "done", "raised"}) =>
        \A id \in DOMAIN result_data :
            LET es == result_data[id]
            IN  /\ \A j \in 1..Len(es) :
                      /\ es[j][1] \in 0..block_count
                      /\ es[j][2] # <<>>
                /\ \A j \in 1..(Len(es) - 1) : es[j][1] < es[j + 1][1]

C27_Witness ==
    /\ kind = "BlockRegexRead"
    /\ pc = "loop"
    /\ block_count = 2
    /\ \E id \in DOMAIN result_data :
          /\ Len(result_data[id]) = 2
          /\ result_data[id][1][1] = 0
          /\ result_data[id][2][1] = 2

\* C28: a BlockRegexRead whose block_end_token is None fails on the first
\* line it reads, before the counter is touched and before any pattern is
\* tried or any capture stored; it returns only from a call that finds the
\* stream exhausted at once.
C28_NoTokenFailsOnFirstLine ==
    (kind = "BlockRegexRead" /\ block_end_token = None
        /\ pc \in {"loop", "done", "raised"}) =>
        /\ lines_read # <<>> =>
              /\ pc = "raised"
              /\ Len(lines_read) = 1
              /\ regex = NoRegex
              /\ block_count = 0
              /\ DOMAIN result_data = {}
        /\ pc = "done" => (lines_read = <<>> /\ process_input = "None")

C28_Witness ==
    /\ kind = "BlockRegexRead"
    /\ block_end_token = None
    /\ regex_dict = KvDict
    /\ pc = "raised"
    /\ lines_read = << <<"x", "=", "1", "\n">> >>
    /\ MatchingCombos(lines_read[1]) # {}
    /\ DOMAIN result_data = {}

\* C29: the contents of a returned sample stay as they were at the return.
\* The sample is the accumulator object itself: as long as the attribute is
\* still bound to that object, the accumulator holds what was returned.
C29_ReturnedSampleFrozen ==
    sample_live =>
        IF IsDictKind
        THEN /\ DOMAIN result_data = DOMAIN sample
             /\ \A id \in DOMAIN sample : result_data[id] = sample[id]
        ELSE result_data = sample

C29_Witness ==
    /\ kind = "MultipleRegexRead"
    /\ cfg_calls >= 1
    /\ pc = "loop"
    /\ ~sample_live
    /\ DOMAIN sample # {}
    /\ lines_read # <<>>
    /\ DOMAIN result_data # DOMAIN sample

====
